---- MODULE Spec2Model ----
(***************************************************************************)
(* diffblame (src/main.go): the backward walk over the commit graph that   *)
(* attributes the files differing between a begin and an end revision to   *)
(* commits.  The model keeps the program's own structure: changedFiles,    *)
(* then the three walks of computeDiffCommits (added, removed, changed),   *)
(* each a run of accumulateCommitsForPaths with its recursion made an      *)
(* explicit stack of frames, then the sort and the printing of the result. *)
(* The calls on the object store succeed, except under SpecStore, where    *)
(* each of them may return an error.                                       *)
(***************************************************************************)
EXTENDS Integers, Sequences, FiniteSets, TLC

\* ---------------------------------------------------------------- bounds
\* Histories have at most MaxCommits commits, numbered in topological order.
MaxCommits == 4
\* Tracked file paths are 1..MaxPaths.
MaxPaths == 2
\* A commit has at most MaxParents parents.
MaxParents == 2
\* Blob identities of a path: 0 is "no such file", 1..MaxBlob are contents.
MaxBlob == 2

Paths == 1..MaxPaths

\* ------------------------------------------------------- program constants
fileStatusSeeking == 0
fileStatusFound == 1
fileStatusRemoved == 2

VARIABLES
    parents,      \* commit -> sequence of its parents (the object store)
    tree,         \* commit -> path -> blob (0: the path is not in the tree)
    when,         \* commit -> committer timestamp
    beginCommit,  \* the resolved begin revision
    endCommit,    \* the resolved end revision
    pc,           \* position in main / computeDiffCommits
    cl,           \* the changeList computed by changedFiles
    stack,        \* frames of accumulateCommitsForPaths, innermost last
    heap,         \* the status maps of the running walk; a frame refers to
                  \* its map by its index here
    seen,         \* the seen map of the running walk
    commitsSet,   \* the result map of computeDiffCommits
    commits,      \* the sorted slice returned by computeDiffCommits
    accCount,     \* class -> commit -> calls of acc on it in that walk
    updCount,     \* class -> commit -> status updates against it in that walk
    addedBy,      \* class -> commits its accumulator stored in the result map
    lookups,      \* class -> <<commit, path>> pairs the linear loop looked up
    printed,      \* the commits main has written to standard output
    failures,     \* the kinds of call that have returned an error in this run
    run,          \* which execution of the program this is (1 or 2)
    firstResult,  \* the slice returned by the first execution
    firstParents  \* the parent lists the first execution ran on

vars == <<parents, tree, when, beginCommit, endCommit, pc, cl, stack, heap,
          seen, commitsSet, commits, accCount, updCount, addedBy, lookups,
          printed, failures, run, firstResult, firstParents>>

history == <<parents, tree, when, beginCommit, endCommit>>

\* ------------------------------------------------------------ the history
Injective(s) == \A i, j \in DOMAIN s : i # j => s[i] # s[j]

\* The parent lists commit c may have: the first commit is the only root,
\* any other has 1..MaxParents distinct parents among the older commits.
ParentListsOf(c) ==
    IF c = 1 THEN {<<>>}
    ELSE {s \in UNION {[1..k -> 1..(c - 1)] : k \in 1..MaxParents} : Injective(s)}

\* The histories of n commits: a parent list for each of them.
RECURSIVE Histories(_)
Histories(n) ==
    IF n = 0 THEN {<<>>}
    ELSE {Append(h, pl) : h \in Histories(n - 1), pl \in ParentListsOf(n)}

\* Trees: the walker reads only whether a path is present; blob identity is
\* read by the tree diff of begin and end alone, so the end commit is the one
\* that may carry a blob other than the first.
Trees(n) ==
    {[c \in 1..n |-> IF c = n THEN e ELSE o[c]] :
        o \in [1..(n - 1) -> [Paths -> 0..1]], e \in [Paths -> 0..MaxBlob]}

\* Committer timestamps are whatever the committers' clocks said, not tied
\* to the order of the graph: the histories drawn alternate between two
\* instants, which gives commits with equal timestamps and children older
\* than their parents.
When(n) == [c \in 1..n |-> 1 + (c % 2)]

NumParents(c) == Len(parents[c])

Parent(c, idx) == parents[c][idx]

\* go-git's Commit.IsAncestor: walks from other through parent links and
\* reports whether c is met, other itself included.
RECURSIVE AncestorsOf(_)
AncestorsOf(c) ==
    {c} \cup UNION {AncestorsOf(parents[c][i]) : i \in 1..Len(parents[c])}

IsAncestor(c, other) == c \in AncestorsOf(other)

\* The program reads a commit only while walking back from the end revision
\* or inside an ancestry test against the begin or the end revision: the
\* histories drawn are made of the ancestors of the two revisions.
NoIdleCommit ==
    AncestorsOf(beginCommit) \cup AncestorsOf(endCommit) = DOMAIN parents

\* Commit.File(path) succeeds iff the path is in the commit's tree.
File(c, path) == tree[c][path] # 0

\* ----------------------------------------------------------- changedFiles
\* The tree diff of begin and end, sorted into the three lists.  A rename is
\* listed as its new path added and its old path removed, which is where the
\* two paths fall here too; Paths are files outside vendor/, the ones the
\* lists keep.
changedFiles ==
    LET b == tree[beginCommit]
        e == tree[endCommit]
    IN  [added   |-> {p \in Paths : b[p] = 0 /\ e[p] # 0},
         removed |-> {p \in Paths : b[p] # 0 /\ e[p] = 0},
         changed |-> {p \in Paths : b[p] # 0 /\ e[p] # 0 /\ b[p] # e[p]}]

\* ------------------------------------------------------ computeDiffCommits
\* The three classes of paths, walked in this order.
ClassSet == {"added", "removed", "changed"}

\* The status every path of a class starts its walk with.
InitialStatus(class) ==
    IF class = "removed" THEN fileStatusSeeking ELSE fileStatusFound

InitialStatuses(class) == [p \in cl[class] |-> InitialStatus(class)]

\* A slip between the two revisions: the walks start from the begin commit.
StartCommit_Begin == beginCommit

\* The commit every walk starts from.
StartCommit == endCommit

\* A slip: the merge's own map is handed to the branch (no copy is made).
copyMap_Shared(h, m) == [heap |-> h, ref |-> m]

\* copyMap, lines 194-200, on the map h[m]: a new map with the same entries
\* is allocated, and the reference to it is what the caller gets.
copyMap(h, m) ==
    [heap |-> Append(h, [k \in DOMAIN h[m] |-> h[m][k]]), ref |-> Len(h) + 1]

\* ------------------------------------------------------------ accumulators
\* An accumulator is given the result map and a commit; it yields the map
\* as it leaves it, whether it stored the commit, and what it returns
\* (false: the walk must leave this branch).
addAlways(set, c) == [commits |-> set \cup {c}, stored |-> TRUE, ok |-> TRUE]

\* A slip of the gate: the commit is stored whatever its ancestry.
addIfNotAncestor_Ungated(set, base, c) ==
    [commits |-> set \cup {c}, stored |-> TRUE, ok |-> TRUE]

addIfNotAncestor(set, base, c) ==
    IF ~IsAncestor(c, base)
    THEN [commits |-> set \cup {c}, stored |-> TRUE, ok |-> TRUE]
    ELSE [commits |-> set, stored |-> FALSE, ok |-> FALSE]

\* A slip: the added class is given the gated accumulator too.
Acc_AllGated(class, set, c) == addIfNotAncestor(set, endCommit, c)

\* A slip, or the repair: the gate compares with the begin commit.
Acc_GateOnBegin(class, set, c) ==
    IF class = "added" THEN addAlways(set, c)
    ELSE addIfNotAncestor(set, beginCommit, c)

\* The accumulator computeDiffCommits hands to the walk of a class.
Acc(class, set, c) ==
    IF class = "added" THEN addAlways(set, c)
    ELSE addIfNotAncestor(set, endCommit, c)

\* ------------------------------------------------ the per-commit status update
\* A slip: a removed path is looked up like any other.
UpdateStatus_NoSkip(status, found) ==
    IF found THEN fileStatusFound
    ELSE IF status = fileStatusFound THEN fileStatusRemoved
    ELSE status

\* A slip: a path whose status is Removed is looked up like any other.
LooksUp_Always(status) == TRUE

\* Lines 221-223: a path whose status is Removed is passed over.
LooksUp(status) == status # fileStatusRemoved

UpdateStatus(status, found) ==
    IF ~LooksUp(status) THEN status
    ELSE IF found THEN fileStatusFound
    ELSE IF status = fileStatusFound THEN fileStatusRemoved
    ELSE status

UpdateStatuses(statuses, c) ==
    [p \in DOMAIN statuses |-> UpdateStatus(statuses[p], File(c, p))]

\* A slip: process starts out true.
Process_Always(statuses, c) == TRUE

Process(statuses, c) ==
    \E p \in DOMAIN statuses : LooksUp(statuses[p]) /\ File(c, p)

\* A slip: a path that is still sought does not count unless p holds it.
BranchProcess_NoSeeking(statuses, p) ==
    \E path \in DOMAIN statuses :
        statuses[path] # fileStatusRemoved /\ File(p, path)

\* The check made for a parent p of a merge (or root) commit.
BranchProcess(statuses, p) ==
    \E path \in DOMAIN statuses :
        /\ statuses[path] # fileStatusRemoved
        /\ (File(p, path) \/ statuses[path] = fileStatusSeeking)

\* ------------------------------------------------------------------ frames
\* A call of accumulateCommitsForPaths: its commit, the reference to its
\* status map, and where it is (idx = 0: in the loop of lines 207-253,
\* idx >= 1: about to consider parent idx in the loop of lines 261-290).
Frame(c, statuses) == [current |-> c, statuses |-> statuses, idx |-> 0]

\* The status map a frame refers to.
Statuses(f) == heap[f.statuses]

\* The nil commit that current is left with when its parent did not resolve.
Nil == 0

Top == stack[Len(stack)]

Pop == SubSeq(stack, 1, Len(stack) - 1)

ReplaceTop(f) == [stack EXCEPT ![Len(stack)] = f]

NextPc(class) ==
    IF class = "added" THEN "removed"
    ELSE IF class = "removed" THEN "changed"
    ELSE "sort"

Walking == pc \in ClassSet

Zero == [k \in ClassSet |-> [c \in DOMAIN parents |-> 0]]

NoChanges == [added |-> {}, removed |-> {}, changed |-> {}]

\* The change lists computeDiffCommits may be called with: every path is in
\* at most one of the three lists.
ChangeLists ==
    {[added   |-> {p \in Paths : k[p] = 1},
      removed |-> {p \in Paths : k[p] = 2},
      changed |-> {p \in Paths : k[p] = 3}] : k \in [Paths -> 0..3]}

Tracked(c) == c.added \cup c.removed \cup c.changed

\* ------------------------------------------------------------------- Init
\* What both initial conditions share: nothing has run yet.
Fresh ==
    /\ stack = <<>>
    /\ heap = <<>>
    /\ seen = {}
    /\ commitsSet = {}
    /\ commits = <<>>
    /\ accCount = Zero
    /\ updCount = Zero
    /\ addedBy = [k \in ClassSet |-> {}]
    /\ lookups = [k \in ClassSet |-> {}]
    /\ printed = <<>>
    /\ failures = {}
    /\ run = 1
    /\ firstResult = <<>>
    /\ firstParents = parents

\* The program, started by main on some history and two revisions of it.
Init ==
    /\ \E n \in 1..MaxCommits :
        /\ parents \in Histories(n)
        /\ tree \in Trees(n)
        /\ when = When(n)
        /\ endCommit = n
        /\ beginCommit \in 1..n
    /\ NoIdleCommit
    /\ pc = "changedFiles"
    /\ cl = NoChanges
    /\ Fresh

\* computeDiffCommits called on some history, two revisions and any change
\* list.  Paths outside the change list are never looked up, so the
\* histories drawn here hold none.
InitCompute ==
    /\ \E n \in 1..MaxCommits :
        /\ parents \in Histories(n)
        /\ tree \in [1..n -> [Paths -> 0..1]]
        /\ when = When(n)
        /\ endCommit = n
        /\ beginCommit \in 1..n
    /\ NoIdleCommit
    /\ cl \in ChangeLists
    /\ \A c \in DOMAIN tree : \A p \in Paths \ Tracked(cl) : tree[c][p] = 0
    /\ pc = "added"
    /\ Fresh

\* ---------------------------------------------------------------- actions
twice == <<run, firstResult, firstParents>>

ghost == <<accCount, updCount, addedBy, lookups>>

\* main, line 40: files := changedFiles()
ChangedFiles ==
    /\ pc = "changedFiles"
    /\ cl' = changedFiles
    /\ pc' = "added"
    /\ UNCHANGED <<history, stack, heap, seen, commitsSet, commits, ghost,
                   printed, failures, twice>>

\* computeDiffCommits, lines 154-159, 161-166, 168-173: build the status map
\* of the class and enter accumulateCommitsForPaths(endCommit, nil, ...),
\* which makes a fresh seen map (lines 203-205).
StartWalk ==
    /\ Walking
    /\ stack = <<>>
    /\ heap' = <<InitialStatuses(pc)>>
    /\ stack' = <<Frame(StartCommit, 1)>>
    /\ seen' = {}
    /\ UNCHANGED <<history, pc, cl, commitsSet, commits, ghost, printed,
                   failures, twice>>

\* A frame returns, the maps being h: the caller goes on, or the walk is
\* over and computeDiffCommits moves to its next class.
Return(h) ==
    /\ stack' = Pop
    /\ pc' = IF Len(stack) = 1 THEN NextPc(pc) ELSE pc
    /\ heap' = h

\* A slip: the commit is looked up in the seen map but never entered.
MarkSeen_Forgotten(c) == seen

\* Marking a commit as seen (line 212).
MarkSeen(c) == seen \cup {c}

\* A slip: only a root commit leaves the loop, a merge is walked like a
\* single-parent commit along its first parent.
IsLinear_Merges(c) == NumParents(c) >= 1

\* Line 214: the loop goes on for a commit with exactly one parent.
IsLinear(c) == NumParents(c) = 1

\* One iteration of the loop of lines 207-253 on the innermost frame; fails
\* says whether current.Parent(0), if the iteration gets to it, returns an
\* error: the error is logged (lines 249-251) and current becomes nil.
Iterate(fails) ==
    /\ Walking
    /\ stack # <<>>
    /\ Top.idx = 0
    /\ Top.current # Nil
    /\ LET c == Top.current IN
        IF c \in seen
        THEN \* lines 208-211
             /\ ~fails
             /\ Return(heap)
             /\ UNCHANGED <<seen, commitsSet, ghost>>
        ELSE
          /\ seen' = MarkSeen(c)
          /\ IF ~IsLinear(c)
             THEN \* lines 214-216: break, on to the loop over the parents
                  /\ ~fails
                  /\ stack' = ReplaceTop([Top EXCEPT !.idx = 1])
                  /\ UNCHANGED <<pc, heap, commitsSet, ghost>>
             ELSE
               LET statuses == Statuses(Top)
                   updated  == [heap EXCEPT ![Top.statuses] =
                                    UpdateStatuses(statuses, c)]
                   process  == Process(statuses, c)
                   r        == Acc(pc, commitsSet, c)
                   next     == IF fails THEN Nil ELSE Parent(c, 1)
                   advanced == ReplaceTop([Top EXCEPT !.current = next])
               IN
               /\ fails => (process => r.ok)
               /\ updCount' = [updCount EXCEPT ![pc][c] = @ + 1]
               /\ lookups' = [lookups EXCEPT ![pc] = @ \cup
                      {<<c, p>> : p \in {q \in DOMAIN statuses :
                                           LooksUp(statuses[q])}}]
               /\ IF process
                  THEN /\ accCount' = [accCount EXCEPT ![pc][c] = @ + 1]
                       /\ commitsSet' = r.commits
                       /\ addedBy' = IF r.stored
                                     THEN [addedBy EXCEPT ![pc] = @ \cup {c}]
                                     ELSE addedBy
                       /\ IF r.ok
                          THEN stack' = advanced /\ heap' = updated /\ pc' = pc
                          ELSE Return(updated)
                  ELSE /\ stack' = advanced
                       /\ heap' = updated
                       /\ UNCHANGED <<pc, commitsSet, accCount, addedBy>>
    /\ failures' = IF fails THEN failures \cup {"parent"} ELSE failures
    /\ UNCHANGED <<history, cl, commits, printed, twice>>

LoopStep == Iterate(FALSE)

\* A slip: idx is not incremented.
NextIdx_Stuck(idx) == idx

\* Line 261: idx++
NextIdx(idx) == idx + 1

\* One iteration of the loop over the parents, lines 261-290, or the return
\* of line 291 once every parent has been considered.
ParentStep ==
    /\ Walking
    /\ stack # <<>>
    /\ Top.idx > 0
    /\ LET c == Top.current IN
        IF Top.idx > NumParents(c)
        THEN Return(heap)
        ELSE
          LET p        == Parent(c, Top.idx)
              process  == BranchProcess(Statuses(Top), p)
              ancestor == IsAncestor(p, beginCommit)
              advanced == ReplaceTop([Top EXCEPT !.idx = NextIdx(@)])
              copy     == copyMap(heap, Top.statuses)
          IN
          /\ pc' = pc
          /\ IF process /\ ~ancestor
             THEN /\ stack' = Append(advanced, Frame(p, copy.ref))
                  /\ heap' = copy.heap
             ELSE /\ stack' = advanced
                  /\ heap' = heap
    /\ UNCHANGED <<history, cl, seen, commitsSet, commits, ghost, printed,
                   failures, twice>>

\* ------------------------------------------------- a store that may fail
\* logger.Fatalf: the error is logged and the process exits with status 1.
Abort(kind) ==
    /\ pc' = "fatal"
    /\ failures' = failures \cup {kind}

\* setup, lines 54-69: the repository opens and both revisions resolve.
Setup ==
    /\ pc = "setup"
    /\ pc' = "changedFiles"
    /\ UNCHANGED <<history, cl, stack, heap, seen, commitsSet, commits, ghost,
                   printed, failures, twice>>

\* setup: the repository does not open (lines 61-63) or a revision does not
\* resolve (lines 75-77, 84-86).
SetupFails ==
    /\ pc = "setup"
    /\ Abort("setup")
    /\ UNCHANGED <<history, cl, stack, heap, seen, commitsSet, commits, ghost,
                   printed, twice>>

\* changedFiles: a tree, the diff or the patch is not to be had (lines
\* 98-100, 102-104, 111-113, 116-118).
ChangedFilesFails ==
    /\ pc = "changedFiles"
    /\ Abort("tree")
    /\ UNCHANGED <<history, cl, stack, heap, seen, commitsSet, commits, ghost,
                   printed, twice>>

\* The linear loop looks a path up in a single-parent commit and the store
\* returns an error other than ErrFileNotFound: lines 225-227.
LoopFileFails ==
    /\ Walking
    /\ stack # <<>>
    /\ Top.idx = 0
    /\ Top.current # Nil
    /\ Top.current \notin seen
    /\ IsLinear(Top.current)
    /\ \E path \in DOMAIN Statuses(Top) : LooksUp(Statuses(Top)[path])
    /\ seen' = MarkSeen(Top.current)
    /\ Abort("file")
    /\ UNCHANGED <<history, cl, stack, heap, commitsSet, commits, ghost,
                   printed, twice>>

\* The accumulator of the removed or changed class is called and its
\* ancestry query returns an error: lines 302-305.
LoopAncestryFails ==
    /\ pc \in {"removed", "changed"}
    /\ stack # <<>>
    /\ Top.idx = 0
    /\ Top.current # Nil
    /\ Top.current \notin seen
    /\ IsLinear(Top.current)
    /\ Process(Statuses(Top), Top.current)
    /\ seen' = MarkSeen(Top.current)
    /\ heap' = [heap EXCEPT ![Top.statuses] =
                    UpdateStatuses(Statuses(Top), Top.current)]
    /\ updCount' = [updCount EXCEPT ![pc][Top.current] = @ + 1]
    /\ accCount' = [accCount EXCEPT ![pc][Top.current] = @ + 1]
    /\ lookups' = [lookups EXCEPT ![pc] = @ \cup
           {<<Top.current, p>> : p \in {q \in DOMAIN Statuses(Top) :
                                          LooksUp(Statuses(Top)[q])}}]
    /\ Abort("ancestry")
    /\ UNCHANGED <<history, cl, stack, commitsSet, commits, addedBy, printed,
                   twice>>

\* Lines 248-252: the sole parent does not resolve.
LoopParentFails == Iterate(TRUE)

\* Line 208 on a nil current: the runtime panics and the process dies.
NilDereference ==
    /\ Walking
    /\ stack # <<>>
    /\ Top.idx = 0
    /\ Top.current = Nil
    /\ pc' = "panic"
    /\ UNCHANGED <<history, cl, stack, heap, seen, commitsSet, commits, ghost,
                   printed, failures, twice>>

\* Lines 262-265: parent idx of the merge does not resolve.
MergeParentFails ==
    /\ Walking
    /\ stack # <<>>
    /\ Top.idx > 0
    /\ Top.idx <= NumParents(Top.current)
    /\ Abort("parent")
    /\ UNCHANGED <<history, cl, stack, heap, seen, commitsSet, commits, ghost,
                   printed, twice>>

\* Lines 277-280: the ancestry query on a parent of the merge fails.
MergeAncestryFails ==
    /\ Walking
    /\ stack # <<>>
    /\ Top.idx > 0
    /\ Top.idx <= NumParents(Top.current)
    /\ Abort("ancestry")
    /\ UNCHANGED <<history, cl, stack, heap, seen, commitsSet, commits, ghost,
                   printed, twice>>

\* Line 271 with a lookup of path q in parent p that returns an error other
\* than ErrFileNotFound: fileErr is not nil, so q makes process true only if
\* its status is Seeking, and the loop over the paths goes on.
BranchProcessFailing(statuses, p, q) ==
    \E path \in DOMAIN statuses :
        /\ LooksUp(statuses[path])
        /\ \/ path # q /\ File(p, path)
           \/ statuses[path] = fileStatusSeeking

\* An iteration of the loop over the parents in which one lookup fails.
MergeFileFails ==
    /\ Walking
    /\ stack # <<>>
    /\ Top.idx > 0
    /\ Top.idx <= NumParents(Top.current)
    /\ \E q \in DOMAIN Statuses(Top) :
        /\ LooksUp(Statuses(Top)[q])
        /\ LET p        == Parent(Top.current, Top.idx)
               process  == BranchProcessFailing(Statuses(Top), p, q)
               ancestor == IsAncestor(p, beginCommit)
               advanced == ReplaceTop([Top EXCEPT !.idx = NextIdx(@)])
               copy     == copyMap(heap, Top.statuses)
           IN
           IF process /\ ~ancestor
           THEN /\ stack' = Append(advanced, Frame(p, copy.ref))
                /\ heap' = copy.heap
           ELSE /\ stack' = advanced
                /\ heap' = heap
    /\ failures' = failures \cup {"file"}
    /\ UNCHANGED <<history, pc, cl, seen, commitsSet, commits, ghost, printed,
                   twice>>

\* sort.Slice with Before as the less function: some ordering of the map's
\* values in which no element is before an earlier one; the slice is filled
\* in map iteration order and the sort is not stable, so ties fall anyhow.
\* A slip: the slice is returned as the map iteration filled it.
SortedSlices_Unsorted(set) ==
    {s \in [1..Cardinality(set) -> set] : Injective(s)}

SortedSlices(set) ==
    {s \in [1..Cardinality(set) -> set] :
        /\ Injective(s)
        /\ \A i, j \in 1..Cardinality(set) :
              i < j => ~(when[s[j]] < when[s[i]])}

\* computeDiffCommits, lines 175-183.
Sort ==
    /\ pc = "sort"
    /\ commits' \in SortedSlices(commitsSet)
    /\ pc' = "done"
    /\ UNCHANGED <<history, cl, stack, heap, seen, commitsSet, ghost, printed,
                   failures, twice>>

\* main, lines 42-44: one iteration of the loop that prints the commits
\* computeDiffCommits returned.
PrintCommit ==
    /\ pc = "done"
    /\ Len(printed) < Len(commits)
    /\ printed' = Append(printed, commits[Len(printed) + 1])
    /\ UNCHANGED <<history, pc, cl, stack, heap, seen, commitsSet, commits,
                   ghost, failures, twice>>

Next == ChangedFiles \/ StartWalk \/ LoopStep \/ ParentStep \/ Sort
            \/ PrintCommit

Spec == Init /\ [][Next]_vars

\* The program from its first line, on a store whose calls may fail.
InitStore ==
    /\ \E n \in 1..MaxCommits :
        /\ parents \in Histories(n)
        /\ tree \in Trees(n)
        /\ when = When(n)
        /\ endCommit = n
        /\ beginCommit \in 1..n
    /\ NoIdleCommit
    /\ pc = "setup"
    /\ cl = NoChanges
    /\ Fresh

NextStore ==
    \/ Setup
    \/ SetupFails
    \/ ChangedFilesFails
    \/ LoopFileFails
    \/ LoopAncestryFails
    \/ LoopParentFails
    \/ NilDereference
    \/ MergeParentFails
    \/ MergeAncestryFails
    \/ MergeFileFails
    \/ Next

SpecStore == InitStore /\ [][NextStore]_vars

\* The program on a store that answers every call: a step that can be taken
\* is taken (the program is one sequential process that nothing suspends).
SpecFair == Init /\ [][Next]_vars /\ WF_vars(Next)

NextCompute == StartWalk \/ LoopStep \/ ParentStep \/ Sort

SpecCompute == InitCompute /\ [][NextCompute]_vars

\* ----------------------------------------------------- running it again
ToSet(s) == {s[i] : i \in DOMAIN s}

\* The histories that differ from h in the recorded order of parents only.
Reorderings(h) ==
    {g \in Histories(Len(h)) : \A c \in DOMAIN h : ToSet(g[c]) = ToSet(h[c])}

\* The program is run a second time, on the same history or on one whose
\* merges list the same parents in another order; what the first run
\* returned is kept for comparison.
Rerun ==
    /\ pc = "done"
    /\ printed = commits
    /\ run = 1
    /\ run' = 2
    /\ firstResult' = commits
    /\ parents' \in Reorderings(parents)
    /\ pc' = "changedFiles"
    /\ cl' = NoChanges
    /\ stack' = <<>>
    /\ heap' = <<>>
    /\ seen' = {}
    /\ commitsSet' = {}
    /\ commits' = <<>>
    /\ accCount' = Zero
    /\ updCount' = Zero
    /\ addedBy' = [k \in ClassSet |-> {}]
    /\ lookups' = [k \in ClassSet |-> {}]
    /\ printed' = <<>>
    /\ failures' = {}
    /\ UNCHANGED <<tree, when, beginCommit, endCommit, firstParents>>

NextTwice == Next \/ Rerun

SpecTwice == Init /\ [][NextTwice]_vars

\* ------------------------------------------------------------------ claims
Done == pc = "done"

\* The linear history A - B - C - D of commits 1..4 in which path p is added
\* by B, kept by C and deleted by D, with begin = A, end = D and p the one
\* path of the change list, in its removed list.
LinearHistory(p) ==
    /\ parents = <<<<>>, <<1>>, <<2>>, <<3>>>>
    /\ beginCommit = 1
    /\ endCommit = 4
    /\ tree[1][p] = 0 /\ tree[2][p] # 0 /\ tree[3][p] # 0 /\ tree[4][p] = 0
    /\ cl = [added |-> {}, removed |-> {p}, changed |-> {}]

\* C1: on the linear history A - B - C - D with the file in the removed
\* list, computeDiffCommits reports the commits B and C.
C1_RemovedFileReportsBandC ==
    \A p \in Paths : (LinearHistory(p) /\ Done) => ToSet(commits) = {2, 3}

\* The diamond A - {B, C} - D of commits 1..4, D merging B and C, with
\* begin = A, end = D and path p, present in all four commits, the one path
\* of the change list, in its changed list.
DiamondHistory(p) ==
    /\ parents \in {<<<<>>, <<1>>, <<1>>, <<2, 3>>>>, <<<<>>, <<1>>, <<1>>, <<3, 2>>>>}
    /\ beginCommit = 1
    /\ endCommit = 4
    /\ \A c \in 1..4 : tree[c][p] # 0
    /\ cl = [added |-> {}, removed |-> {}, changed |-> {p}]

\* C2: on the diamond with a file of the changed list changed on branch B
\* only, computeDiffCommits returns B and does not return C.
C2_DiamondReportsBNotC ==
    \A p \in Paths :
        (DiamondHistory(p) /\ Done) => (2 \in ToSet(commits) /\ 3 \notin ToSet(commits))


\* C3: no ancestor of the begin revision (the begin commit included) is put
\* into the result by the walk of the removed class or of the changed class.
C3_GatedWalksStoreNoAncestorOfBegin ==
    \A c \in addedBy["removed"] \cup addedBy["changed"] :
        ~IsAncestor(c, beginCommit)

\* The accumulator of a gated walk has been run on an ancestor of begin.
C3_Witness ==
    \E k \in {"removed", "changed"} : \E c \in DOMAIN parents :
        accCount[k][c] > 0 /\ IsAncestor(c, beginCommit)

\* C4: every commit of the returned sequence is an ancestor of the end
\* revision.
C4_ResultIsAncestryOfEnd ==
    Done => \A c \in ToSet(commits) : IsAncestor(c, endCommit)

\* A non-empty result on a history in which the begin commit is no ancestor
\* of the end commit yet holds a tracked path.
C4_Witness ==
    /\ Done
    /\ commits # <<>>
    /\ ~IsAncestor(beginCommit, endCommit)
    /\ \E p \in Tracked(cl) : File(beginCommit, p)

\* C5: two runs on the same history, revisions and change list return the
\* identical sequence, commits of equal timestamp in the same order too.
C5_SecondRunReturnsSameSequence ==
    (Done /\ run = 2 /\ parents = firstParents) => commits = firstResult

\* C6: permuting the recorded parent order of the merge commits leaves the
\* set of commits returned unchanged.
C6_ParentOrderLeavesResultSet ==
    (Done /\ run = 2) => ToSet(commits) = ToSet(firstResult)

\* C7: with begin and end the same commit the change list is empty and the
\* empty sequence is returned; and a walk that starts from an empty status
\* map never runs the accumulator.
C7_SameRevisionNothingToReport ==
    /\ (beginCommit = endCommit /\ pc # "changedFiles") => cl = NoChanges
    /\ (beginCommit = endCommit /\ Done) => commits = <<>>
    /\ \A k \in ClassSet :
          cl[k] = {} => \A c \in DOMAIN parents : accCount[k][c] = 0

\* A finished run with begin = end whose three walks each ran the status
\* update against the end commit, which holds a file.
C7_Witness ==
    /\ Done
    /\ beginCommit = endCommit
    /\ \E p \in Paths : File(endCommit, p)
    /\ \A k \in ClassSet : updCount[k][endCommit] = 1

\* C8: within one walk a commit is run through the status update at most
\* once and handed to the accumulator at most once.
C8_EachCommitAtMostOncePerWalk ==
    \A k \in ClassSet : \A c \in DOMAIN parents :
        updCount[k][c] <= 1 /\ accCount[k][c] <= 1

\* The walk stands again on a commit it has already updated and handed to
\* the accumulator, having reached it along a second path.
C8_Witness ==
    /\ Walking
    /\ stack # <<>>
    /\ Top.idx = 0
    /\ Top.current \in seen
    /\ updCount[pc][Top.current] = 1
    /\ accCount[pc][Top.current] = 1

Sorted(s) == \A i, j \in DOMAIN s : i < j => when[s[i]] <= when[s[j]]

\* C9: the returned sequence holds each commit at most once and is in
\* ascending order of committer timestamp.
C9_ResultDistinctAndSorted ==
    Done => (Injective(commits) /\ Sorted(commits))

\* A result of several commits, one of which the accumulators of two walks
\* were both run on, and whose timestamps are not all equal.
C9_Witness ==
    /\ Done
    /\ \E i, j \in DOMAIN commits : when[commits[i]] < when[commits[j]]
    /\ \E c \in ToSet(commits) :
          accCount["added"][c] > 0
          /\ (accCount["removed"][c] > 0 \/ accCount["changed"][c] > 0)

\* From a state in which a walk is running, map i of the heap is the same
\* map after the step, and a map allocated by the step is the copy made for
\* a deeper branch.
StatusForward ==
    /\ stack # <<>> =>
          \A i \in DOMAIN heap :
              /\ i \in DOMAIN heap'
              /\ DOMAIN heap'[i] = DOMAIN heap[i]
              /\ \A p \in DOMAIN heap[i] : heap[i][p] <= heap'[i][p]
    /\ (stack # <<>> /\ Len(heap') = Len(heap) + 1) =>
          /\ DOMAIN heap'[Len(heap')] = DOMAIN Statuses(Top)
          /\ \A p \in DOMAIN Statuses(Top) :
                Statuses(Top)[p] <= heap'[Len(heap')][p]

\* C10: a path's status only moves forward in the order Seeking, Found,
\* Removed, in a branch's status map and in the copies made of it for deeper
\* branches: a Removed path stays Removed and none returns to Seeking.
C10_StatusOnlyMovesForward == [][StatusForward]_vars

\* The walk is about to update against a commit that holds a path whose
\* status is Removed.
C10_Witness ==
    /\ Walking
    /\ stack # <<>>
    /\ Top.idx = 0
    /\ Top.current \notin seen
    /\ NumParents(Top.current) = 1
    /\ \E p \in DOMAIN Statuses(Top) :
          Statuses(Top)[p] = fileStatusRemoved /\ File(Top.current, p)

\* C11: a path lookup that fails with an error other than "not found" ends
\* the run at once, wherever the lookup is made (the status update of the
\* linear loop, the check made for each parent of a merge): once such an
\* error has been returned, the program is in its fatal exit.
C11_LookupErrorIsFatal == "file" \in failures => pc = "fatal"

\* C12: no partial output: once any call has failed (a revision, the store,
\* a parent, an ancestry query), no commit has been or will be printed, and
\* commits are printed only when computeDiffCommits has returned.
C12_NothingPrintedAfterFailure ==
    /\ failures # {} => printed = <<>>
    /\ printed # <<>> => pc = "done" /\ stack = <<>>

\* The linear loop of the added walk is about to update against a commit.
AddedWalkUpdates ==
    /\ pc = "added"
    /\ stack # <<>>
    /\ Top.idx = 0
    /\ Top.current \notin seen
    /\ NumParents(Top.current) = 1

\* The same frame goes on with the sole parent of its commit.
GoesOnToParent ==
    /\ Len(stack') = Len(stack)
    /\ stack'[Len(stack')].current = Parent(Top.current, 1)

\* C13: in the added walk every commit handed to the accumulator (process
\* was true) is in the result map, and the accumulator never stops the walk:
\* after the update against a single-parent commit the loop always goes on
\* with that commit's parent.
C13_AddedWalkStoresAndGoesOn ==
    /\ [](\A c \in DOMAIN parents :
            accCount["added"][c] > 0 =>
                c \in commitsSet /\ c \in addedBy["added"])
    /\ [][AddedWalkUpdates => GoesOnToParent]_vars

\* The added walk has stored a commit and gone on to store another.
C13_Witness ==
    /\ pc = "added"
    /\ Cardinality(addedBy["added"]) >= 2

\* The walk moves from the commit of the innermost frame to a parent of it:
\* the loop goes on with the sole parent, or a frame is entered for a parent
\* of the merge.
AdvancesToParent ==
    \/ /\ Len(stack') = Len(stack)
       /\ stack'[Len(stack')].current # Top.current
    \/ Len(stack') = Len(stack) + 1

\* C14: in the removed and the changed walk the branch is pruned at a
\* commit that is an ancestor of begin: the walk never moves from such a
\* commit to one of its parents, in the linear loop or at a merge.  Stated
\* for the walks that matter, those whose status map still holds a path
\* that is looked up.
C14_GatedWalksStopAtAncestorOfBegin ==
    [][(/\ pc \in {"removed", "changed"}
        /\ stack # <<>>
        /\ \E p \in DOMAIN Statuses(Top) : LooksUp(Statuses(Top)[p])
        /\ IsAncestor(Top.current, beginCommit)) => ~AdvancesToParent]_vars

\* C15: on a finite acyclic history whose lookups all succeed the three
\* walks terminate one after the other and computeDiffCommits returns.
C15_ComputeDiffCommitsReturns == <>Done

\* computeDiffCommits has returned on a history with a merge, and each of
\* the three walks has gone through a linear stretch.
C15_Witness ==
    /\ Done
    /\ \E c \in DOMAIN parents : NumParents(c) = MaxParents
    /\ \A k \in ClassSet : \E c \in DOMAIN parents : updCount[k][c] > 0

\* The linear loop is about to update the statuses against its commit.
LoopUpdates ==
    /\ Walking
    /\ stack # <<>>
    /\ Top.idx = 0
    /\ Top.current \notin seen
    /\ NumParents(Top.current) = 1

\* What the update against commit c makes of the map before: the table of
\* the claim, and which paths were looked up.
StatusTable(c, before, after) ==
    /\ DOMAIN after = DOMAIN before
    /\ \A p \in DOMAIN before :
        /\ (before[p] = fileStatusSeeking /\ File(c, p)) =>
              after[p] = fileStatusFound
        /\ (before[p] = fileStatusSeeking /\ ~File(c, p)) =>
              after[p] = fileStatusSeeking
        /\ (before[p] = fileStatusFound /\ File(c, p)) =>
              after[p] = fileStatusFound
        /\ (before[p] = fileStatusFound /\ ~File(c, p)) =>
              after[p] = fileStatusRemoved
        /\ before[p] = fileStatusRemoved =>
              after[p] = fileStatusRemoved /\ <<c, p>> \notin lookups'[pc]
        /\ before[p] # fileStatusRemoved => <<c, p>> \in lookups'[pc]

\* C16: the update against a single-parent commit follows the table
\* (Seeking: present -> Found, absent -> Seeking; Found: present -> Found,
\* absent -> Removed; Removed: untouched and not looked up), and the
\* accumulator is called exactly when a path that was not Removed before
\* the update is present in the commit.
C16_UpdateFollowsTheTable ==
    [][LoopUpdates =>
        /\ StatusTable(Top.current, Statuses(Top), heap'[Top.statuses])
        /\ accCount'[pc][Top.current] - accCount[pc][Top.current] =
              IF \E p \in DOMAIN Statuses(Top) :
                    Statuses(Top)[p] # fileStatusRemoved /\ File(Top.current, p)
              THEN 1 ELSE 0]_vars

\* A commit was updated against and handed to the accumulator, and a path
\* it holds was not looked up in it, being Removed by then.
C16_Witness ==
    /\ Walking
    /\ \E c \in DOMAIN parents : \E p \in cl[pc] :
        /\ updCount[pc][c] > 0
        /\ accCount[pc][c] > 0
        /\ File(c, p)
        /\ <<c, p>> \notin lookups[pc]

\* The loop over the parents is about to consider a parent.
ConsidersParent ==
    /\ Walking
    /\ stack # <<>>
    /\ Top.idx > 0
    /\ Top.idx <= NumParents(Top.current)

\* C17: at a merge the walk enters parent p exactly when some path that is
\* not Removed is in p's tree or some path is still Seeking, and p is not an
\* ancestor of begin; while a path is Seeking every parent that is not an
\* ancestor of begin is entered.
C17_EntersParentIff ==
    [][ConsidersParent =>
        LET p  == Parent(Top.current, Top.idx)
            st == Statuses(Top)
        IN  (/\ Len(stack') = Len(stack) + 1
             /\ stack'[Len(stack')].current = p)
            <=>
            (/\ \/ \E path \in DOMAIN st :
                      st[path] # fileStatusRemoved /\ File(p, path)
                \/ \E path \in DOMAIN st : st[path] = fileStatusSeeking
             /\ p \notin AncestorsOf(beginCommit))]_vars

\* A parent that holds none of the paths has been entered, a path being
\* Seeking.
C17_Witness ==
    /\ Walking
    /\ Len(stack) >= 2
    /\ Top.idx = 0
    /\ Top.current \notin seen
    /\ \A path \in DOMAIN Statuses(Top) : ~File(Top.current, path)
    /\ \E path \in DOMAIN Statuses(Top) :
          Statuses(Top)[path] = fileStatusSeeking

\* What a step leaves alone: the map of every call but the innermost, the
\* map of a call that is in its loop over the parents, and, when a parent is
\* entered, every map there was; the map of the new call is a new one that
\* holds what the merge's map holds.
ForkKeepsMaps ==
    /\ \A i \in DOMAIN stack :
          (i < Len(stack) \/ stack[i].idx > 0) =>
              heap'[stack[i].statuses] = heap[stack[i].statuses]
    /\ (stack # <<>> /\ Len(stack') = Len(stack) + 1) =>
        LET new == stack'[Len(stack')].statuses IN
        /\ \A i \in DOMAIN stack : stack[i].statuses # new
        /\ heap'[new] = Statuses(Top)

\* C18: a parent of a merge is walked on a copy of the status map: no
\* status change made in one parent's branch changes the map held at the
\* merge or the map a sibling parent's walk starts with, which is the
\* merge's map as it was when the merge was reached.
C18_BranchesWalkOnCopies == [][Walking => ForkKeepsMaps]_vars

\* The walk of a later parent of a merge starts, the walk of an earlier
\* parent having changed a status in its own map.
C18_Witness ==
    /\ Walking
    /\ Len(stack) >= 2
    /\ stack[Len(stack) - 1].idx > 2
    /\ Top.idx = 0
    /\ Top.current \notin seen
    /\ Statuses(Top) = heap[stack[Len(stack) - 1].statuses]
    /\ \E i \in DOMAIN heap :
          /\ DOMAIN heap[i] = DOMAIN Statuses(Top)
          /\ heap[i] # Statuses(Top)

\* C19: no root commit and no merge commit is handed to an accumulator or
\* updated against: neither is ever in the result, whatever its tree holds.
C19_OnlySingleParentCommitsCount ==
    /\ \A c \in DOMAIN parents :
          NumParents(c) # 1 =>
              /\ c \notin commitsSet
              /\ \A k \in ClassSet :
                    /\ accCount[k][c] = 0
                    /\ updCount[k][c] = 0
                    /\ \A p \in Paths : <<c, p>> \notin lookups[k]
    /\ \A i \in DOMAIN commits : NumParents(commits[i]) = 1

\* The end commit is a merge that holds an added path and its ancestor the
\* root holds it too; commits are reported, these two are not.
C19_Witness ==
    /\ Done
    /\ commits # <<>>
    /\ NumParents(endCommit) = MaxParents
    /\ \E p \in cl.added : File(endCommit, p) /\ File(1, p)

\* The linear loop of the removed or the changed walk is about to update
\* against a commit that holds a path that is not Removed.
GatedWalkProcesses ==
    /\ pc \in {"removed", "changed"}
    /\ LoopUpdates
    /\ \E p \in DOMAIN Statuses(Top) :
          Statuses(Top)[p] # fileStatusRemoved /\ File(Top.current, p)

\* C20: as the code stands the removed and the changed walk add nothing to
\* the result: each branch of theirs ends at the first single-parent commit
\* for which process is true, and what computeDiffCommits returns is exactly
\* what the added walk stored.
C20_GatedWalksAddNothing ==
    /\ [](/\ addedBy["removed"] = {}
          /\ addedBy["changed"] = {}
          /\ commitsSet = addedBy["added"]
          /\ Done => ToSet(commits) = addedBy["added"])
    /\ [][GatedWalkProcesses => stack' = Pop]_vars

\* computeDiffCommits has returned commits, and a commit the removed or the
\* changed walk handed to its accumulator is not among them.
C20_Witness ==
    /\ Done
    /\ commits # <<>>
    /\ \E c \in DOMAIN parents : \E k \in {"removed", "changed"} :
          accCount[k][c] > 0 /\ c \notin ToSet(commits)

====
